---- MODULE Spec2Model ----
(***************************************************************************)
(* Model of the modal text editor in src/main.rs: the Editor's fields      *)
(* (mode, content, cursor_x, cursor_y), the key handlers and the Rust      *)
(* String / Vec operations they call.  A line is a Rust String, i.e. a     *)
(* sequence of UTF-8 bytes; cursor_x is a byte offset into it.             *)
(***************************************************************************)
EXTENDS Integers, Sequences, FiniteSets, TLC

VARIABLES mode, content, cursor_x, cursor_y, event, result, changed, phase, typed,
          terminal_size, pc, raw_mode, alt_screen, run_ret, overflow_checks

edvars == <<mode, content, cursor_x, cursor_y>>
keyvars == <<mode, content, cursor_x, cursor_y, event, result, changed, phase, typed>>
\* the state of run and of the terminal it drives
runvars == <<terminal_size, pc, raw_mode, alt_screen, run_ret, overflow_checks>>
vars == <<mode, content, cursor_x, cursor_y, event, result, changed, phase, typed,
          terminal_size, pc, raw_mode, alt_screen, run_ret, overflow_checks>>

\* ---------------------------------------------------------------- bounds
\* Largest number of bytes the whole buffer holds in the explored states.
MaxBytes == 3
\* Largest number of lines the buffer holds in the explored states.
MaxLines == 3
\* The same two bounds for the runs that also step through run's loop.
RunMaxBytes == 2
RunMaxLines == 2

\* ------------------------------------------------------------ key events
\* char values (Unicode scalar values) delivered as KeyCode::Char
CH_h == 104
CH_i == 105
CH_j == 106
CH_k == 107
CH_l == 108
CH_q == 113
\* The chars the explored key events carry: the letters the Normal-mode
\* handler names, and U+00E9 (233), whose UTF-8 encoding takes two bytes.
Chars == {CH_h, CH_i, CH_j, CH_k, CH_l, CH_q, 233}

Arrows == {"Left", "Right", "Up", "Down"}

\* crossterm KeyEvent: a KeyCode (with the char of KeyCode::Char) and whether
\* the modifiers contain KeyModifiers::CONTROL
KeyEvent(code, c, ctrl) == [code |-> code, c |-> c, ctrl |-> ctrl]

\* The chars the explored runs deliver while the mode is Insert (they become
\* content): two of the Normal-mode command letters and the two-byte char.
InsertChars == {CH_i, CH_q, 233}

\* The key events the explored runs deliver: every char unmodified, 'q' with
\* Control, and the keys without a char.
KeyEvents ==
    {KeyEvent("Char", c, FALSE) : c \in Chars}
        \cup {KeyEvent("Char", CH_q, TRUE)}
        \cup {KeyEvent(code, 0, FALSE) :
                code \in {"Esc", "Enter", "Backspace"} \cup Arrows}

NoEvent == KeyEvent("None", 0, FALSE)

\* ------------------------------------------------- Rust String (UTF-8)
\* char::encode_utf8
encode_utf8(c) ==
    IF c < 128 THEN <<c>>
    ELSE IF c < 2048 THEN <<192 + (c \div 64), 128 + (c % 64)>>
    ELSE IF c < 65536
        THEN <<224 + (c \div 4096), 128 + ((c \div 64) % 64), 128 + (c % 64)>>
    ELSE <<240 + (c \div 262144), 128 + ((c \div 4096) % 64),
           128 + ((c \div 64) % 64), 128 + (c % 64)>>

\* width of the UTF-8 sequence that starts with lead byte b
utf8_char_width(b) ==
    IF b < 128 THEN 1 ELSE IF b < 224 THEN 2 ELSE IF b < 240 THEN 3 ELSE 4

\* str::is_char_boundary: index 0 and len are boundaries, an index past len
\* is not, and inside the string a byte that is not a continuation
\* byte (10xxxxxx) starts a char.  idx is 0-based, s is 1-based.
is_char_boundary(s, idx) ==
    \/ idx = 0
    \/ idx = Len(s)
    \/ /\ idx > 0
       /\ idx < Len(s)
       /\ ~(s[idx + 1] >= 128 /\ s[idx + 1] < 192)

\* The value of a call that may panic: ok = FALSE stands for the panic.
Done(v) == [ok |-> TRUE, v |-> v]
Panicked(v) == [ok |-> FALSE, v |-> v]

\* String::insert(idx, ch): asserts is_char_boundary(idx), then splices the
\* encoding of ch in at byte idx.
String_insert(s, idx, ch) ==
    IF ~is_char_boundary(s, idx) THEN Panicked(s)
    ELSE Done(SubSeq(s, 1, idx) \o encode_utf8(ch) \o SubSeq(s, idx + 1, Len(s)))

\* String::remove(idx): takes the char at self[idx..] (the slice panics off a
\* boundary, an empty slice has no char to remove) and drops its bytes.
String_remove(s, idx) ==
    IF ~is_char_boundary(s, idx) \/ idx >= Len(s) THEN Panicked(s)
    ELSE Done(SubSeq(s, 1, idx)
                \o SubSeq(s, idx + utf8_char_width(s[idx + 1]) + 1, Len(s)))

\* &s[x..]: panics unless x is a char boundary
String_slice_from(s, x) ==
    IF ~is_char_boundary(s, x) THEN Panicked(s)
    ELSE Done(SubSeq(s, x + 1, Len(s)))

\* String::truncate(x): no effect when x > len, else asserts the boundary
String_truncate(s, x) ==
    IF x > Len(s) THEN Done(s)
    ELSE IF ~is_char_boundary(s, x) THEN Panicked(s)
    ELSE Done(SubSeq(s, 1, x))

\* Vec::insert(index, element): panics when index > len
Vec_insert(v, index, element) ==
    IF index > Len(v) THEN Panicked(v)
    ELSE Done(SubSeq(v, 1, index) \o <<element>> \o SubSeq(v, index + 1, Len(v)))

\* Vec::remove(index): panics when index >= len
Vec_remove(v, index) ==
    IF index >= Len(v) THEN Panicked(v)
    ELSE Done(SubSeq(v, 1, index) \o SubSeq(v, index + 2, Len(v)))

\* --------------------------------------------------------------- Editor
\* The Editor value the handlers work on (0-based cursor_y into content).
Editor(m, ct, x, y) == [mode |-> m, content |-> ct, cursor_x |-> x, cursor_y |-> y]

Self == Editor(mode, content, cursor_x, cursor_y)

\* Editor::new
new == Editor("Normal", <<<<>>>>, 0, 0)

\* self.content[y]: indexing a Vec out of range panics
InRange(e, y) == y >= 0 /\ y < Len(e.content)
Line(e, y) == e.content[y + 1]

\* The outcome of a handler: the Editor it leaves and how the call ended
\* ("Ok", "Err" = exit requested, "Panic" = the thread panicked).
Outcome(e, res) == [ed |-> e, res |-> res]

Min(a, b) == IF a < b THEN a ELSE b

\* move_cursor_left that wraps to the end of the previous line at column 0
move_cursor_left_wrap(e) ==
    IF e.cursor_x > 0
        THEN Outcome([e EXCEPT !.cursor_x = e.cursor_x - 1], "Ok")
    ELSE IF e.cursor_y > 0
        THEN Outcome([e EXCEPT !.cursor_y = e.cursor_y - 1,
                               !.cursor_x = Len(e.content[e.cursor_y])], "Ok")
    ELSE Outcome(e, "Ok")

\* fn move_cursor_left
move_cursor_left(e) ==
    IF e.cursor_x > 0
        THEN Outcome([e EXCEPT !.cursor_x = e.cursor_x - 1], "Ok")
        ELSE Outcome(e, "Ok")

\* fn move_cursor_right
move_cursor_right(e) ==
    IF ~InRange(e, e.cursor_y) THEN Outcome(e, "Panic")
    ELSE IF e.cursor_x < Len(Line(e, e.cursor_y))
        THEN Outcome([e EXCEPT !.cursor_x = e.cursor_x + 1], "Ok")
        ELSE Outcome(e, "Ok")

\* move_cursor_up without the clamp of cursor_x to the new line's length
move_cursor_up_noclamp(e) ==
    IF e.cursor_y > 0
        THEN Outcome([e EXCEPT !.cursor_y = e.cursor_y - 1], "Ok")
        ELSE Outcome(e, "Ok")

\* fn move_cursor_up
move_cursor_up(e) ==
    IF e.cursor_y > 0
        THEN IF ~InRange(e, e.cursor_y - 1) THEN Outcome(e, "Panic")
             ELSE Outcome([e EXCEPT !.cursor_y = e.cursor_y - 1,
                                    !.cursor_x = Min(e.cursor_x,
                                                     Len(Line(e, e.cursor_y - 1)))],
                          "Ok")
        ELSE Outcome(e, "Ok")

\* move_cursor_down without the clamp of cursor_x to the new line's length
move_cursor_down_noclamp(e) ==
    IF Len(e.content) = 0 THEN Outcome(e, "Panic")
    ELSE IF e.cursor_y < Len(e.content) - 1
        THEN Outcome([e EXCEPT !.cursor_y = e.cursor_y + 1], "Ok")
        ELSE Outcome(e, "Ok")

\* fn move_cursor_down: content.len() - 1 is usize arithmetic, which panics
\* (or wraps and then indexes out of range) on an empty Vec.
move_cursor_down(e) ==
    IF Len(e.content) = 0 THEN Outcome(e, "Panic")
    ELSE IF e.cursor_y < Len(e.content) - 1
        THEN Outcome([e EXCEPT !.cursor_y = e.cursor_y + 1,
                               !.cursor_x = Min(e.cursor_x,
                                                Len(Line(e, e.cursor_y + 1)))],
                     "Ok")
        ELSE Outcome(e, "Ok")

\* fn insert_char
insert_char(e, c) ==
    IF ~InRange(e, e.cursor_y) THEN Outcome(e, "Panic")
    ELSE LET ins == String_insert(Line(e, e.cursor_y), e.cursor_x, c)
         IN  IF ~ins.ok THEN Outcome(e, "Panic")
             ELSE Outcome([e EXCEPT !.content[e.cursor_y + 1] = ins.v,
                                    !.cursor_x = e.cursor_x + 1],
                          "Ok")

\* fn insert_newline
insert_newline(e) ==
    LET y == e.cursor_y
        x == e.cursor_x
    IN  IF ~InRange(e, y) THEN Outcome(e, "Panic")
        ELSE LET current_line == String_slice_from(Line(e, y), x)
                 truncated == String_truncate(Line(e, y), x)
             IN  IF ~current_line.ok \/ ~truncated.ok THEN Outcome(e, "Panic")
                 ELSE LET inserted ==
                              Vec_insert([e.content EXCEPT ![y + 1] = truncated.v],
                                         y + 1, current_line.v)
                      IN  IF ~inserted.ok THEN Outcome(e, "Panic")
                          ELSE Outcome([e EXCEPT !.content = inserted.v,
                                                 !.cursor_y = y + 1,
                                                 !.cursor_x = 0],
                                       "Ok")

\* handle_backspace that reads previous_len after push_str, so a join leaves
\* the cursor at the end of the merged line
handle_backspace_len_after_push(e) ==
    IF e.cursor_x > 0
        THEN LET rem == String_remove(e.content[e.cursor_y + 1], e.cursor_x - 1)
             IN  IF ~rem.ok THEN Outcome(e, "Panic")
                 ELSE Outcome([e EXCEPT !.content[e.cursor_y + 1] = rem.v,
                                        !.cursor_x = e.cursor_x - 1],
                              "Ok")
    ELSE IF e.cursor_y > 0
        THEN LET y == e.cursor_y
                 merged == e.content[y] \o e.content[y + 1]
             IN  Outcome([e EXCEPT
                            !.content = SubSeq(e.content, 1, y - 1)
                                          \o <<merged>>
                                          \o SubSeq(e.content, y + 2, Len(e.content)),
                            !.cursor_y = y - 1,
                            !.cursor_x = Len(merged)],
                         "Ok")
    ELSE Outcome(e, "Ok")

\* handle_backspace that at (0, 0) deletes the char under the cursor
handle_backspace_deletes_at_origin(e) ==
    IF e.cursor_x > 0
        THEN LET rem == String_remove(e.content[e.cursor_y + 1], e.cursor_x - 1)
             IN  IF ~rem.ok THEN Outcome(e, "Panic")
                 ELSE Outcome([e EXCEPT !.content[e.cursor_y + 1] = rem.v,
                                        !.cursor_x = e.cursor_x - 1],
                              "Ok")
    ELSE IF e.cursor_y > 0
        THEN LET y == e.cursor_y
             IN  Outcome([e EXCEPT
                            !.content = SubSeq(e.content, 1, y - 1)
                                          \o <<e.content[y] \o e.content[y + 1]>>
                                          \o SubSeq(e.content, y + 2, Len(e.content)),
                            !.cursor_y = y - 1,
                            !.cursor_x = Len(e.content[y])],
                         "Ok")
    ELSE LET rem == String_remove(e.content[1], 0)
         IN  IF ~rem.ok THEN Outcome(e, "Ok")
             ELSE Outcome([e EXCEPT !.content[1] = rem.v], "Ok")

\* fn handle_backspace
handle_backspace(e) ==
    IF e.cursor_x > 0
        THEN IF ~InRange(e, e.cursor_y) THEN Outcome(e, "Panic")
             ELSE LET rem == String_remove(Line(e, e.cursor_y), e.cursor_x - 1)
                  IN  IF ~rem.ok THEN Outcome(e, "Panic")
                      ELSE Outcome([e EXCEPT !.content[e.cursor_y + 1] = rem.v,
                                             !.cursor_x = e.cursor_x - 1],
                                   "Ok")
    ELSE IF e.cursor_y > 0
        THEN LET y == e.cursor_y
                 removed == Vec_remove(e.content, y)
             IN  IF ~InRange(e, y) \/ ~removed.ok THEN Outcome(e, "Panic")
                 ELSE LET current_line == Line(e, y)
                          previous_len == Len(removed.v[y])
                      IN  Outcome([e EXCEPT
                                     !.content = [removed.v EXCEPT
                                                    ![y] = removed.v[y] \o current_line],
                                     !.cursor_y = y - 1,
                                     !.cursor_x = previous_len],
                                  "Ok")
    ELSE Outcome(e, "Ok")

\* handle_normal_mode whose default arm types the char, as Insert mode does
handle_normal_mode_types(e, ev) ==
    IF ev.code = "Char" /\ ev.c = CH_i THEN Outcome([e EXCEPT !.mode = "Insert"], "Ok")
    ELSE IF ev.code = "Char" /\ ev.c = CH_h THEN move_cursor_left(e)
    ELSE IF ev.code = "Char" /\ ev.c = CH_j THEN move_cursor_down(e)
    ELSE IF ev.code = "Char" /\ ev.c = CH_k THEN move_cursor_up(e)
    ELSE IF ev.code = "Char" /\ ev.c = CH_l THEN move_cursor_right(e)
    ELSE IF ev.code = "Char" /\ ev.c = CH_q /\ ev.ctrl THEN Outcome(e, "Err")
    ELSE IF ev.code = "Char" THEN insert_char(e, ev.c)
    ELSE Outcome(e, "Ok")

\* handle_normal_mode whose 'q' arm lacks the CONTROL guard's return: the
\* exit request also switches to Insert, as if it fell into the 'i' arm
handle_normal_mode_quit_slip(e, ev) ==
    IF ev.code = "Char" /\ (ev.c = CH_i \/ (ev.c = CH_q /\ ev.ctrl))
        THEN Outcome([e EXCEPT !.mode = "Insert"], IF ev.c = CH_q THEN "Err" ELSE "Ok")
    ELSE IF ev.code = "Char" /\ ev.c = CH_h THEN move_cursor_left(e)
    ELSE IF ev.code = "Char" /\ ev.c = CH_j THEN move_cursor_down(e)
    ELSE IF ev.code = "Char" /\ ev.c = CH_k THEN move_cursor_up(e)
    ELSE IF ev.code = "Char" /\ ev.c = CH_l THEN move_cursor_right(e)
    ELSE Outcome(e, "Ok")

\* fn handle_normal_mode: the match arms in source order
handle_normal_mode(e, ev) ==
    IF ev.code = "Char" /\ ev.c = CH_i THEN Outcome([e EXCEPT !.mode = "Insert"], "Ok")
    ELSE IF ev.code = "Char" /\ ev.c = CH_h THEN move_cursor_left(e)
    ELSE IF ev.code = "Char" /\ ev.c = CH_j THEN move_cursor_down(e)
    ELSE IF ev.code = "Char" /\ ev.c = CH_k THEN move_cursor_up(e)
    ELSE IF ev.code = "Char" /\ ev.c = CH_l THEN move_cursor_right(e)
    ELSE IF ev.code = "Char" /\ ev.c = CH_q /\ ev.ctrl THEN Outcome(e, "Err")
    ELSE Outcome(e, "Ok")

\* handle_insert_mode whose Enter arm also leaves Insert mode
handle_insert_mode_enter_leaves(e, ev) ==
    IF ev.code = "Esc" THEN Outcome([e EXCEPT !.mode = "Normal"], "Ok")
    ELSE IF ev.code = "Char" THEN insert_char(e, ev.c)
    ELSE IF ev.code = "Enter"
        THEN LET out == insert_newline(e)
             IN  Outcome([out.ed EXCEPT !.mode = "Normal"], out.res)
    ELSE IF ev.code = "Backspace" THEN handle_backspace(e)
    ELSE Outcome(e, "Ok")

\* handle_insert_mode with arms that bind the arrow keys to the cursor moves
handle_insert_mode_arrows(e, ev) ==
    IF ev.code = "Esc" THEN Outcome([e EXCEPT !.mode = "Normal"], "Ok")
    ELSE IF ev.code = "Char" THEN insert_char(e, ev.c)
    ELSE IF ev.code = "Enter" THEN insert_newline(e)
    ELSE IF ev.code = "Backspace" THEN handle_backspace(e)
    ELSE IF ev.code = "Left" THEN move_cursor_left(e)
    ELSE IF ev.code = "Down" THEN move_cursor_down(e)
    ELSE IF ev.code = "Up" THEN move_cursor_up(e)
    ELSE IF ev.code = "Right" THEN move_cursor_right(e)
    ELSE Outcome(e, "Ok")

\* fn handle_insert_mode
handle_insert_mode(e, ev) ==
    IF ev.code = "Esc" THEN Outcome([e EXCEPT !.mode = "Normal"], "Ok")
    ELSE IF ev.code = "Char" THEN insert_char(e, ev.c)
    ELSE IF ev.code = "Enter" THEN insert_newline(e)
    ELSE IF ev.code = "Backspace" THEN handle_backspace(e)
    ELSE Outcome(e, "Ok")

\* fn handle_keypress
handle_keypress(e, ev) ==
    IF e.mode = "Normal" THEN handle_normal_mode(e, ev)
    ELSE handle_insert_mode(e, ev)

\* ------------------------------------------------------- state machine
\* Number of bytes in the whole buffer
RECURSIVE TotalBytes(_)
TotalBytes(ct) == IF ct = <<>> THEN 0 ELSE Len(Head(ct)) + TotalBytes(Tail(ct))

\* The explored runs keep the buffer within MaxLines and MaxBytes and type
\* only InsertChars as content.
WithinBounds(e) == Len(e.content) <= MaxLines /\ TotalBytes(e.content) <= MaxBytes

Delivered(ev) == (mode = "Insert" /\ ev.code = "Char") => ev.c \in InsertChars

\* Editor::new, before run has read any event.  event and result record the
\* last key event handed to handle_keypress and what the call returned,
\* changed whether that call left an Editor different from the one it got;
\* phase and typed record the keys delivered so far while they are exactly
\* 'i' followed by chars ("fresh": none yet, "typing", "off": anything else).
Init ==
    /\ mode = new.mode
    /\ content = new.content
    /\ cursor_x = new.cursor_x
    /\ cursor_y = new.cursor_y
    /\ event = NoEvent
    /\ result = "Ok"
    /\ changed = FALSE
    /\ phase = "fresh"
    /\ typed = <<>>
    /\ terminal_size = <<80, 24>>
    /\ pc = "start"
    /\ raw_mode = FALSE
    /\ alt_screen = FALSE
    /\ run_ret = "None"
    /\ overflow_checks = TRUE

\* One iteration of the loop in run, seen from the Editor: event::read
\* delivers ev and handle_keypress handles it.  The loop is left when the call
\* returns Err, and a panic ends the process, so no event follows either.
\* Keypress is that iteration with the terminal left out of the picture.
HandleKey(ev) ==
    /\ result = "Ok"
    /\ Delivered(ev)
    /\ LET out == handle_keypress(Self, ev)
       IN  /\ WithinBounds(out.ed)
           /\ mode' = out.ed.mode
           /\ content' = out.ed.content
           /\ cursor_x' = out.ed.cursor_x
           /\ cursor_y' = out.ed.cursor_y
           /\ result' = out.res
           /\ changed' = (out.ed /= Self)
    /\ event' = ev
    /\ phase' = IF phase = "fresh" /\ ev = KeyEvent("Char", CH_i, FALSE) THEN "typing"
                ELSE IF phase = "typing" /\ ev.code = "Char" THEN "typing"
                ELSE "off"
    /\ typed' = IF phase = "typing" /\ ev.code = "Char" THEN Append(typed, ev.c)
                ELSE <<>>

Keypress(ev) == HandleKey(ev) /\ UNCHANGED runvars

Next == \E ev \in KeyEvents : Keypress(ev)

Spec == Init /\ [][Next]_vars

\* ------------------------------------------------------------- run loop
\* The sizes terminal::size reports in the explored runs, as (width, height):
\* the fallback of Editor::new, the narrowest and lowest size the status bar
\* of a small buffer fits, one column less, and one row.
TermSizes == {<<80, 24>>, <<42, 2>>, <<41, 24>>, <<80, 1>>}

\* usize::to_string().len(): the number of decimal digits
RECURSIVE DecLen(_)
DecLen(n) == IF n < 10 THEN 1 ELSE 1 + DecLen(n \div 10)

\* status.len(): format!(" {} - Line {}/{}, Col {} ", file_name, cursor_y + 1,
\* content.len(), cursor_x + 1) with file_name "[No Name]" (filename is None)
status_len(e) ==
    Len(" ") + Len("[No Name]") + Len(" - Line ") + DecLen(e.cursor_y + 1)
        + Len("/") + DecLen(Len(e.content)) + Len(", Col ") + DecLen(e.cursor_x + 1)
        + Len(" ")

\* mode_str.len(): format!(" {:?} MODE ", self.mode)
mode_str_len(e) == Len(" ") + Len(e.mode) + Len(" MODE ")

\* The arithmetic of refresh_screen on terminal_size = size.  status_bar_y is
\* u16: height - 2 below zero panics in a build with overflow checks and
\* wraps otherwise.  The padding is usize: below zero it panics with overflow
\* checks, and otherwise wraps to a length " ".repeat cannot allocate, so it
\* panics there.
refresh_screen(e, size, checks) ==
    LET y_underflow == size[2] - 2 < 0
        pad == size[1] - status_len(e) - mode_str_len(e)
    IN  [status_bar_y |-> (size[2] - 2) % 65536,
         padding |-> pad,
         res |-> IF y_underflow /\ checks THEN "Panic"
                 ELSE IF pad < 0 THEN "Panic"
                 ELSE "Ok"]

\* Editor::new as main calls it: terminal::size().unwrap_or((80, 24)); the
\* build is either one with overflow checks (debug) or one without.
InitRun ==
    /\ mode = new.mode
    /\ content = new.content
    /\ cursor_x = new.cursor_x
    /\ cursor_y = new.cursor_y
    /\ event = NoEvent
    /\ result = "Ok"
    /\ changed = FALSE
    /\ phase = "fresh"
    /\ typed = <<>>
    /\ terminal_size \in TermSizes
    /\ pc = "start"
    /\ raw_mode = FALSE
    /\ alt_screen = FALSE
    /\ run_ret = "None"
    /\ overflow_checks \in BOOLEAN

\* `?` on an Err: run returns the error at once
ReturnErr ==
    /\ pc' = "returned"
    /\ run_ret' = "Err"

\* terminal::enable_raw_mode()?
EnableRawMode ==
    /\ pc = "start"
    /\ \/ /\ raw_mode' = TRUE
          /\ pc' = "enter_alt"
          /\ UNCHANGED run_ret
       \/ /\ ReturnErr
          /\ UNCHANGED raw_mode
    /\ UNCHANGED <<keyvars, terminal_size, alt_screen, overflow_checks>>

\* execute!(stdout(), terminal::EnterAlternateScreen)?
EnterAlternateScreen ==
    /\ pc = "enter_alt"
    /\ \/ /\ alt_screen' = TRUE
          /\ pc' = "size"
          /\ UNCHANGED run_ret
       \/ /\ ReturnErr
          /\ UNCHANGED alt_screen
    /\ UNCHANGED <<keyvars, terminal_size, raw_mode, overflow_checks>>

\* self.terminal_size = terminal::size()?
TerminalSize ==
    /\ pc = "size"
    /\ \/ /\ terminal_size' \in TermSizes
          /\ pc' = "refresh"
          /\ UNCHANGED run_ret
       \/ /\ ReturnErr
          /\ UNCHANGED terminal_size
    /\ UNCHANGED <<keyvars, raw_mode, alt_screen, overflow_checks>>

\* self.refresh_screen()?: a queue! or the flush may report an I/O error;
\* otherwise the frame is drawn unless the arithmetic panics.
RefreshScreen ==
    /\ pc = "refresh"
    /\ \/ /\ pc' = IF refresh_screen(Self, terminal_size, overflow_checks).res = "Ok"
                     THEN "read" ELSE "panicked"
          /\ UNCHANGED run_ret
       \/ ReturnErr
    /\ UNCHANGED <<keyvars, terminal_size, raw_mode, alt_screen, overflow_checks>>

\* event::read()? delivers the key event ev: handle_keypress(ev), and break
\* when it returns Err
ReadKey(ev) ==
    /\ pc = "read"
    /\ HandleKey(ev)
    /\ Len(content') <= RunMaxLines
    /\ TotalBytes(content') <= RunMaxBytes
    /\ pc' = IF result' = "Ok" THEN "size"
             ELSE IF result' = "Err" THEN "leave_alt"
             ELSE "panicked"
    /\ UNCHANGED <<terminal_size, raw_mode, alt_screen, run_ret, overflow_checks>>

\* event::read()? delivers an event that is no Event::Key (a resize, say), or
\* reports an I/O error
ReadOther ==
    /\ pc = "read"
    /\ \/ /\ pc' = "size"
          /\ UNCHANGED run_ret
       \/ ReturnErr
    /\ UNCHANGED <<keyvars, terminal_size, raw_mode, alt_screen, overflow_checks>>

\* execute!(stdout(), terminal::LeaveAlternateScreen)?
LeaveAlternateScreen ==
    /\ pc = "leave_alt"
    /\ \/ /\ alt_screen' = FALSE
          /\ pc' = "disable_raw"
          /\ UNCHANGED run_ret
       \/ /\ ReturnErr
          /\ UNCHANGED alt_screen
    /\ UNCHANGED <<keyvars, terminal_size, raw_mode, overflow_checks>>

\* terminal::disable_raw_mode()?; Ok(())
DisableRawMode ==
    /\ pc = "disable_raw"
    /\ \/ /\ raw_mode' = FALSE
          /\ pc' = "returned"
          /\ run_ret' = "Ok"
       \/ /\ ReturnErr
          /\ UNCHANGED raw_mode
    /\ UNCHANGED <<keyvars, terminal_size, alt_screen, overflow_checks>>

NextRun ==
    \/ EnableRawMode
    \/ EnterAlternateScreen
    \/ TerminalSize
    \/ RefreshScreen
    \/ \E ev \in KeyEvents : ReadKey(ev)
    \/ ReadOther
    \/ LeaveAlternateScreen
    \/ DisableRawMode

\* main: Editor::new().run()
SpecRun == InitRun /\ [][NextRun]_vars

\* ----------------------------------------------------------------- claims
\* C1: after any sequence of key events the buffer has at least one line,
\* cursor_y indexes a line of it, and cursor_x is between 0 and the (byte)
\* length of that line.
C1_CursorInBuffer ==
    /\ Len(content) >= 1
    /\ cursor_y >= 0
    /\ cursor_y < Len(content)
    /\ cursor_x >= 0
    /\ cursor_x <= Len(content[cursor_y + 1])

\* C1 witness: 'k' moved the cursor up onto a shorter line than the one it
\* left, so the clamp put cursor_x at that line's end.
C1_Witness ==
    /\ mode = "Normal"
    /\ event = KeyEvent("Char", CH_k, FALSE)
    /\ Len(content) >= 2
    /\ cursor_y = 0
    /\ cursor_x = Len(content[1])
    /\ cursor_x >= 1
    /\ Len(content[2]) > Len(content[1])

\* C2: the mode starts as Normal; a step changes it only as Normal --'i'-->
\* Insert or Insert --Esc--> Normal; those two keys always make their
\* transition and change neither the buffer nor the cursor.
C2_ModeStep ==
    /\ (mode' /= mode =>
            \/ (mode = "Normal" /\ event'.code = "Char" /\ event'.c = CH_i
                    /\ mode' = "Insert")
            \/ (mode = "Insert" /\ event'.code = "Esc" /\ mode' = "Normal"))
    /\ (mode = "Normal" /\ event'.code = "Char" /\ event'.c = CH_i =>
            mode' = "Insert" /\ UNCHANGED <<content, cursor_x, cursor_y>>)
    /\ (mode = "Insert" /\ event'.code = "Esc" =>
            mode' = "Normal" /\ UNCHANGED <<content, cursor_x, cursor_y>>)

C2_ModeTransitions == (mode = "Normal") /\ [][C2_ModeStep]_vars

\* C2 witness: Escape brought the editor back to Normal with text in the
\* buffer and the cursor off the origin.
C2_Witness ==
    /\ mode = "Normal"
    /\ event.code = "Esc"
    /\ Len(content) >= 2
    /\ cursor_x >= 1

\* C3: in every reachable Normal-mode state, handle_keypress on Char('q') with
\* Control returns Err and leaves buffer, cursor and mode as they were.
C3_QuitKeepsState ==
    (mode = "Normal" /\ result = "Ok") =>
        handle_keypress(Self, KeyEvent("Char", CH_q, TRUE)) = Outcome(Self, "Err")

\* C3 witness: the exit was requested with text in the buffer and the cursor
\* off the origin.
C3_Witness ==
    /\ result = "Err"
    /\ event = KeyEvent("Char", CH_q, TRUE)
    /\ mode = "Normal"
    /\ Len(content) >= 2
    /\ cursor_y >= 1
    /\ cursor_x >= 1

\* C4: every key event handled while the mode is Insert makes handle_keypress
\* return Ok, so the loop in run does not end on a key pressed in Insert mode.
C4_InsertStep == mode = "Insert" => result' = "Ok"

C4_InsertAlwaysOk == [][C4_InsertStep]_vars

\* The Editor after handling ev and then, if that call returned Ok, ev2; ok
\* tells whether both calls returned Ok.
HandleTwo(e, ev, ev2) ==
    LET first == handle_keypress(e, ev)
        second == handle_keypress(first.ed, ev2)
    IN  IF first.res /= "Ok" THEN [ed |-> first.ed, ok |-> FALSE]
        ELSE [ed |-> second.ed, ok |-> second.res = "Ok"]

\* C5: in Insert mode, in every reachable state and for every char c,
\* handling Char(c) and then Backspace gives back the buffer, the cursor and
\* the mode Insert that were there before the insertion.
C5_InsertBackspaceRoundTrip ==
    (mode = "Insert" /\ result = "Ok") =>
        \A c \in Chars :
            LET two == HandleTwo(Self, KeyEvent("Char", c, FALSE),
                                 KeyEvent("Backspace", 0, FALSE))
            IN  two.ok /\ two.ed = Self

\* C6: in Insert mode, in every reachable state, handling Enter and then
\* Backspace gives back the same lines and the same cursor.
C6_EnterBackspaceRoundTrip ==
    (mode = "Insert" /\ result = "Ok") =>
        LET two == HandleTwo(Self, KeyEvent("Enter", 0, FALSE),
                             KeyEvent("Backspace", 0, FALSE))
        IN  two.ok /\ two.ed = Self

\* C7: a cursor move at its boundary (left at column 0, right at the end of
\* the line, up on the first line, down on the last line) changes nothing of
\* the buffer, the cursor and the mode.
C7_BoundaryMovesNoOp ==
    (mode = "Normal" /\ result = "Ok") =>
        \A c \in {CH_h, CH_l, CH_k, CH_j} :
            (\/ (c = CH_h /\ cursor_x = 0)
             \/ (c = CH_l /\ cursor_x = Len(content[cursor_y + 1]))
             \/ (c = CH_k /\ cursor_y = 0)
             \/ (c = CH_j /\ cursor_y = Len(content) - 1))
                => handle_keypress(Self, KeyEvent("Char", c, FALSE)) = Outcome(Self, "Ok")

\* C7 witness: 'h' was handled in Normal mode and changed nothing, with the
\* cursor at column 0 of a line that has a non-empty line above it.
C7_Witness ==
    /\ mode = "Normal"
    /\ event = KeyEvent("Char", CH_h, FALSE)
    /\ ~changed
    /\ cursor_x = 0
    /\ cursor_y >= 1
    /\ Len(content[cursor_y]) >= 1

\* The UTF-8 bytes of a string of chars
RECURSIVE EncodeStr(_)
EncodeStr(s) == IF s = <<>> THEN <<>> ELSE encode_utf8(Head(s)) \o EncodeStr(Tail(s))

\* C8: from the initial state, 'i' and then the chars of a string s of n
\* chars leave the buffer as the single line s, the cursor at (0, n) and the
\* mode Insert.
C8_TypingYieldsString ==
    phase = "typing" =>
        /\ content = <<EncodeStr(typed)>>
        /\ cursor_y = 0
        /\ cursor_x = Len(typed)
        /\ mode = "Insert"

\* The Editor a cursor move bound to the arrow key code would leave
ArrowMove(e, code) ==
    IF code = "Left" THEN move_cursor_left(e).ed
    ELSE IF code = "Down" THEN move_cursor_down(e).ed
    ELSE IF code = "Up" THEN move_cursor_up(e).ed
    ELSE move_cursor_right(e).ed

\* C9 as claimed: in either mode an arrow key performs the clamped move that
\* h, j, k, l perform in Normal mode, leaving mode and buffer unchanged.
C9_ArrowsMove ==
    result = "Ok" =>
        \A code \in Arrows :
            handle_keypress(Self, KeyEvent(code, 0, FALSE)).ed = ArrowMove(Self, code)

\* C9 as amended: the arrow keys are bound to nothing; in either mode
\* handle_keypress returns Ok for them and leaves cursor, mode and buffer
\* unchanged (only h, j, k, l in Normal mode move the cursor).
C9_ArrowsIgnored ==
    result = "Ok" =>
        \A code \in Arrows :
            handle_keypress(Self, KeyEvent(code, 0, FALSE)) = Outcome(Self, "Ok")

\* C9 witness: Up was handled in Insert mode below the first line and the
\* cursor stayed where it was.
C9_Witness ==
    /\ mode = "Insert"
    /\ event = KeyEvent("Up", 0, FALSE)
    /\ ~changed
    /\ result = "Ok"
    /\ cursor_y >= 1

\* C10: in Insert mode Backspace at (0, 0) changes nothing of buffer, cursor
\* and mode and returns Ok, whatever the buffer holds.
C10_BackspaceAtOriginNoOp ==
    (mode = "Insert" /\ result = "Ok" /\ cursor_x = 0 /\ cursor_y = 0) =>
        handle_keypress(Self, KeyEvent("Backspace", 0, FALSE)) = Outcome(Self, "Ok")

\* C10 witness: Backspace was handled at (0, 0) of a buffer with text on the
\* first line and more lines below, and changed nothing.
C10_Witness ==
    /\ mode = "Insert"
    /\ event = KeyEvent("Backspace", 0, FALSE)
    /\ ~changed
    /\ result = "Ok"
    /\ cursor_x = 0
    /\ cursor_y = 0
    /\ Len(content[1]) >= 1
    /\ Len(content) >= 2

\* C11: in Normal mode, away from the boundaries, 'h' and 'l' change the
\* column by -1 and +1 and keep the row; 'k' and 'j' change the row by -1 and
\* +1 and set the column to the smaller of the old column and the length of
\* the new row's line; nothing else changes.
C11_NormalMoves ==
    (mode = "Normal" /\ result = "Ok") =>
        /\ cursor_x > 0 =>
              handle_keypress(Self, KeyEvent("Char", CH_h, FALSE))
                = Outcome(Editor(mode, content, cursor_x - 1, cursor_y), "Ok")
        /\ cursor_x < Len(content[cursor_y + 1]) =>
              handle_keypress(Self, KeyEvent("Char", CH_l, FALSE))
                = Outcome(Editor(mode, content, cursor_x + 1, cursor_y), "Ok")
        /\ cursor_y > 0 =>
              LET out == handle_keypress(Self, KeyEvent("Char", CH_k, FALSE))
                  len == Len(content[cursor_y])
              IN  /\ out = Outcome(Editor(mode, content,
                                          IF cursor_x <= len THEN cursor_x ELSE len,
                                          cursor_y - 1), "Ok")
                  /\ out.ed.cursor_x <= len
        /\ cursor_y < Len(content) - 1 =>
              LET out == handle_keypress(Self, KeyEvent("Char", CH_j, FALSE))
                  len == Len(content[cursor_y + 2])
              IN  /\ out = Outcome(Editor(mode, content,
                                          IF cursor_x <= len THEN cursor_x ELSE len,
                                          cursor_y + 1), "Ok")
                  /\ out.ed.cursor_x <= len

\* C11 witness: 'j' moved the cursor down from a longer line onto a shorter
\* one, and the column is the shorter line's length.
C11_Witness ==
    /\ mode = "Normal"
    /\ event = KeyEvent("Char", CH_j, FALSE)
    /\ changed
    /\ cursor_y >= 1
    /\ cursor_x = Len(content[cursor_y + 1])
    /\ cursor_x >= 1
    /\ Len(content[cursor_y]) > cursor_x

\* C12: in Insert mode, Backspace at column 0 of a row > 0 removes that line,
\* appends its content to the line above, and puts the cursor on the line
\* above at the length that line had before; the other lines keep their
\* content and order.
C12_BackspaceJoins ==
    (mode = "Insert" /\ result = "Ok" /\ cursor_x = 0 /\ cursor_y > 0) =>
        handle_keypress(Self, KeyEvent("Backspace", 0, FALSE))
          = Outcome(Editor("Insert",
                           SubSeq(content, 1, cursor_y - 1)
                             \o <<content[cursor_y] \o content[cursor_y + 1]>>
                             \o SubSeq(content, cursor_y + 2, Len(content)),
                           Len(content[cursor_y]),
                           cursor_y - 1),
                    "Ok")

\* C12 witness: Backspace changed the buffer and left the cursor inside a
\* line (text on both sides of it), with another line still in the buffer.
C12_Witness ==
    /\ mode = "Insert"
    /\ event = KeyEvent("Backspace", 0, FALSE)
    /\ changed
    /\ result = "Ok"
    /\ Len(content) >= 2
    /\ cursor_x >= 1
    /\ cursor_x < Len(content[cursor_y + 1])

\* C13: in Insert mode, Enter at (row, col) truncates line row to its first
\* col bytes, inserts the rest as a new line right after it, and puts the
\* cursor at (row + 1, 0); the other lines keep their content and order.
C13_EnterSplits ==
    (mode = "Insert" /\ result = "Ok") =>
        handle_keypress(Self, KeyEvent("Enter", 0, FALSE))
          = Outcome(Editor("Insert",
                           SubSeq(content, 1, cursor_y)
                             \o <<SubSeq(content[cursor_y + 1], 1, cursor_x),
                                  SubSeq(content[cursor_y + 1], cursor_x + 1,
                                         Len(content[cursor_y + 1]))>>
                             \o SubSeq(content, cursor_y + 2, Len(content)),
                           0,
                           cursor_y + 1),
                    "Ok")

\* C14: in Insert mode, Char(c) at (row, col) makes line row its first col
\* bytes, then c, then the rest, and puts the cursor at (row, col + 1); the
\* line count, the other lines and the mode stay.
C14_CharInserts ==
    (mode = "Insert" /\ result = "Ok") =>
        \A c \in Chars :
            handle_keypress(Self, KeyEvent("Char", c, FALSE))
              = Outcome(Editor("Insert",
                               [content EXCEPT ![cursor_y + 1] =
                                   SubSeq(@, 1, cursor_x) \o encode_utf8(c)
                                     \o SubSeq(@, cursor_x + 1, Len(@))],
                               cursor_x + 1,
                               cursor_y),
                        "Ok")

\* C15: Enter in Insert mode adds exactly one line, Backspace in Insert mode
\* at column 0 of a row > 0 removes exactly one, and every other key event in
\* every state leaves the number of lines as it was.
C15_LineCount ==
    result = "Ok" =>
        \A ev \in KeyEvents :
            LET delta == Len(handle_keypress(Self, ev).ed.content) - Len(content)
            IN  IF mode = "Insert" /\ ev.code = "Enter" THEN delta = 1
                ELSE IF mode = "Insert" /\ ev.code = "Backspace"
                          /\ cursor_x = 0 /\ cursor_y > 0 THEN delta = -1
                ELSE delta = 0

\* The Normal-mode key events that are bound: i, h, j, k, l and Ctrl+q
NormalBound(ev) ==
    /\ ev.code = "Char"
    /\ \/ ev.c \in {CH_i, CH_h, CH_j, CH_k, CH_l}
       \/ (ev.c = CH_q /\ ev.ctrl)

\* C16: in Normal mode no key event changes the buffer, and a key other than
\* i, h, j, k, l and Ctrl+q also leaves cursor and mode as they were.
C16_NormalKeepsBuffer ==
    (mode = "Normal" /\ result = "Ok") =>
        \A ev \in KeyEvents :
            LET out == handle_keypress(Self, ev)
            IN  /\ out.ed.content = content
                /\ ~NormalBound(ev) => out = Outcome(Self, "Ok")

\* C16 witness: the two-byte char was handled in Normal mode, with text in
\* the buffer, and changed nothing.
C16_Witness ==
    /\ mode = "Normal"
    /\ event = KeyEvent("Char", 233, FALSE)
    /\ ~changed
    /\ result = "Ok"
    /\ Len(content) >= 2
    /\ Len(content[cursor_y + 1]) >= 1

\* C17: in every reachable state cursor_x is a char boundary of the cursor's
\* line, so no String operation of insert_char, insert_newline or
\* handle_backspace panics.
C17_CursorOnCharBoundary ==
    /\ is_char_boundary(content[cursor_y + 1], cursor_x)
    /\ result /= "Panic"

\* C18: once handle_keypress has returned the quit result, run handles no
\* further key event and draws no further frame; it leaves the loop, then
\* leaves the alternate screen, then disables raw mode, and only so returns
\* Ok.  A key event that does not produce the quit result is followed by the
\* next turn of the loop (terminal::size, refresh_screen), and an event is
\* read only right after a refresh.
C18_LoopStep ==
    /\ (pc = "read" /\ result' = "Err") => pc' = "leave_alt"
    /\ result = "Err" => (pc' \in {"disable_raw", "returned"} /\ UNCHANGED keyvars)
    /\ pc' = "disable_raw" => (pc = "leave_alt" /\ alt_screen /\ ~alt_screen')
    /\ run_ret' = "Ok" =>
            (pc = "disable_raw" /\ result = "Err" /\ ~alt_screen' /\ ~raw_mode')
    /\ (pc = "read" /\ event' /= event /\ result' /= "Err") => pc' = "size"
    /\ pc' = "refresh" => pc = "size"
    /\ pc' = "read" => pc = "refresh"

C18_QuitEndsLoop == [][C18_LoopStep]_vars

\* C19: whenever run has returned, also with an I/O error, the terminal is
\* restored: the alternate screen is left and raw mode is disabled.
C19_TerminalRestored ==
    pc = "returned" => (~raw_mode /\ ~alt_screen)

\* C20: whenever refresh_screen runs, for the size the terminal reported and
\* the Editor reached, height - 2 >= 0 and width - len(status) -
\* len(mode_str) >= 0.
C20_NoUnderflow ==
    pc = "refresh" =>
        /\ terminal_size[2] - 2 >= 0
        /\ terminal_size[1] - status_len(Self) - mode_str_len(Self) >= 0
====
